---- MODULE Spec2Model ----
(***************************************************************************)
(* Model of the word-match tool: the interactive driver (web_app.py, a     *)
(* Streamlit script that is re-executed from top to bottom on every        *)
(* widget event) and the file-based batch driver                           *)
(* (word_match_multi_chunked.py).  Both drive the same pipeline:           *)
(*   re.findall -> iter_chunks_wordlist -> nlp.pipe -> lemma loop ->       *)
(*   Counter -> vocabulary matching.                                       *)
(* Text is a sequence of one-character strings, so that joining,           *)
(* splitting, lower-casing and suffix tests are computed, not assumed.     *)
(***************************************************************************)
EXTENDS Integers, Sequences, FiniteSets

\* ------------------------------------------------------------------ bounds

\* Largest configured chunk size explored (the source ships 50000).
MaxChunkWords == 3

\* Longest lemma drawn for the normaliser on its own (NormSpec).
MaxLemmaLen == 5

\* Longest word list drawn for a single run (RunSpec).
MaxWords == 5

\* nlp.pipe(..., batch_size=4)
BATCH_SIZE == 4

\* ------------------------------------------------------- python values

\* Python's None / a present value.
None == <<>>

Some(x) == <<x>>

Get(o) == o[1]

Min(a, b) == IF a <= b THEN a ELSE b

Range(s) == {s[i] : i \in 1..Len(s)}

\* ------------------------------------------------------- str operations

LowerLetters == <<"a","b","c","d","e","f","g","h","i","j","k","l","m",
                  "n","o","p","q","r","s","t","u","v","w","x","y","z">>

UpperLetters == <<"A","B","C","D","E","F","G","H","I","J","K","L","M",
                  "N","O","P","Q","R","S","T","U","V","W","X","Y","Z">>

\* the character class [a-zA-Z]
IsAsciiLetter(c) == c \in Range(LowerLetters) \cup Range(UpperLetters)

LowerChar(c) ==
    IF c \in Range(UpperLetters)
    THEN LowerLetters[CHOOSE i \in 1..26 : UpperLetters[i] = c]
    ELSE c

\* str.lower()
Lower(s) == [i \in 1..Len(s) |-> LowerChar(s[i])]

\* str.endswith(suffix)
EndsWith(s, suffix) ==
    /\ Len(s) >= Len(suffix)
    /\ SubSeq(s, Len(s) - Len(suffix) + 1, Len(s)) = suffix

\* s[:-2]
DropLast2(s) == SubSeq(s, 1, Len(s) - 2)

\* the characters str.strip() removes
IsSpace(c) == c \in {" ", "\t", "\n", "\r"}

RECURSIVE LStrip(_)
LStrip(s) == IF s # <<>> /\ IsSpace(Head(s)) THEN LStrip(Tail(s)) ELSE s

RECURSIVE RStrip(_)
RStrip(s) ==
    IF s # <<>> /\ IsSpace(s[Len(s)]) THEN RStrip(SubSeq(s, 1, Len(s) - 1)) ELSE s

\* str.strip()
Strip(s) == RStrip(LStrip(s))

\* sep.join(parts)
RECURSIVE Join(_, _)
Join(parts, sep) ==
    IF parts = <<>> THEN <<>>
    ELSE IF Len(parts) = 1 THEN parts[1]
    ELSE parts[1] \o <<sep>> \o Join(Tail(parts), sep)

\* s.split(sep) for a one-character separator: the pieces between
\* separators, empty pieces kept ("".split(" ") is [""]).
RECURSIVE SplitFrom(_, _, _)
SplitFrom(s, sep, cur) ==
    IF s = <<>> THEN <<cur>>
    ELSE IF Head(s) = sep THEN <<cur>> \o SplitFrom(Tail(s), sep, <<>>)
    ELSE SplitFrom(Tail(s), sep, Append(cur, Head(s)))

Split(s, sep) == SplitFrom(s, sep, <<>>)

\* re.findall(r"[a-zA-Z]+", text): the maximal runs of ASCII letters, in
\* document order, case preserved.
RECURSIVE FindAllFrom(_, _)
FindAllFrom(text, cur) ==
    IF text = <<>> THEN (IF cur = <<>> THEN <<>> ELSE <<cur>>)
    ELSE IF IsAsciiLetter(Head(text))
         THEN FindAllFrom(Tail(text), Append(cur, Head(text)))
         ELSE (IF cur = <<>> THEN <<>> ELSE <<cur>>) \o FindAllFrom(Tail(text), <<>>)

FindAllAlpha(text) == FindAllFrom(text, <<>>)

\* ------------------------------------------------------------- inputs

\* Book texts a user can supply: no letters at all; a repeated word split
\* by a hyphen; the adverb cases.
BookDigits == <<"4","2",".">>

BookSo == <<"F","l","y"," ","s","o","-","s","o">>

BookAdverbs == <<"Q","u","i","c","k","l","y"," ","o","n","l","y"," ",
                 "f","l","y"," ","t","o","o"," ",
                 "f","r","i","e","n","d","l","y">>

Books == {BookDigits, BookSo, BookAdverbs}

\* Vocabulary files: "Quick\n so \n\nFLY" and "zebra\n".
VocabBasic == <<"Q","u","i","c","k","\n"," ","s","o"," ","\n","\n","F","L","Y">>

VocabZebra == <<"z","e","b","r","a","\n">>

VocabUploads == {<<>>, <<VocabBasic>>, <<VocabZebra>>, <<VocabBasic, VocabZebra>>}

\* ------------------------------------------- the external annotator (nlp)

\* spaCy is outside the repository.  It is stood in for by deterministic
\* doubles that tokenize a blob on its single spaces and return, per token,
\* the three attributes the drivers read: lemma_, pos_, is_alpha.
AdverbLexicon == { <<"q","u","i","c","k","l","y">>, <<"o","n","l","y">>,
                   <<"f","l","y">>, <<"t","o","o">>, <<"s","o">> }

AdjectiveLexicon == { <<"f","r","i","e","n","d","l","y">> }

LexiconPos(w) ==
    IF Lower(w) \in AdverbLexicon THEN "ADV"
    ELSE IF Lower(w) \in AdjectiveLexicon THEN "ADJ"
    ELSE "NOUN"

\* str.isalpha() on the token text
IsAlpha(w) == w # <<>> /\ \A i \in 1..Len(w) : IsAsciiLetter(w[i])

Taggers == {"dict", "edge", "mask"}

\* "dict": surface form as lemma, part of speech from the lexicon.
\* "edge": as "dict", but the first token of a blob loses its context and is
\*         tagged NOUN (chunk boundaries split sentences).
\* "mask": every token an adverb; tokens of at most three letters are
\*         reported as not alphabetic.
Tag(tagger, w, j) ==
    CASE tagger = "dict" -> [lemma |-> w, pos |-> LexiconPos(w), is_alpha |-> IsAlpha(w)]
      [] tagger = "edge" -> [lemma |-> w, pos |-> IF j = 1 THEN "NOUN" ELSE LexiconPos(w),
                             is_alpha |-> IsAlpha(w)]
      [] tagger = "mask" -> [lemma |-> w, pos |-> "ADV", is_alpha |-> Len(w) > 3]

\* One Doc: the annotated tokens of one text blob.
Annotate(tagger, blob) ==
    LET toks == Split(blob, " ")
    IN  [j \in 1..Len(toks) |-> Tag(tagger, toks[j], j)]

\* ------------------------------------------------------------ the pipeline

\* range(0, n, step) as the sequence of its values
PyRange(n, step) ==
    LET cnt == Cardinality({i \in 0..(n - 1) : i % step = 0})
    IN  [k \in 1..cnt |-> (k - 1) * step]

\* Slice with the end index one too far: neighbouring chunks share a word.
SliceOverlapping(wordlist, i, chunk_words) ==
    SubSeq(wordlist, i + 1, Min(i + chunk_words + 1, Len(wordlist)))

\* wordlist[i:i+chunk_words]
Slice(wordlist, i, chunk_words) ==
    SubSeq(wordlist, i + 1, Min(i + chunk_words, Len(wordlist)))

\* The chunks the generator yields, in order.
iter_chunks_wordlist(wordlist, chunk_words) ==
    LET starts == PyRange(Len(wordlist), chunk_words)
    IN  [k \in 1..Len(starts) |-> Join(Slice(wordlist, starts[k], chunk_words), " ")]

\* NormalizedLemma with the length test on the lemma instead of the base.
NormalizedLemmaLengthOfLemma(token) ==
    LET lemma == Lower(token.lemma)
    IN  IF token.pos = "ADV" /\ EndsWith(lemma, <<"l","y">>)
        THEN LET base == DropLast2(lemma)
             IN  IF Len(lemma) > 2 THEN base ELSE lemma
        ELSE lemma

\* The key one alphabetic token is counted under.
NormalizedLemma(token) ==
    LET lemma == Lower(token.lemma)
    IN  IF token.pos = "ADV" /\ EndsWith(lemma, <<"l","y">>)
        THEN LET base == DropLast2(lemma)
             IN  IF Len(base) > 2 THEN base ELSE lemma
        ELSE lemma

\* LemmasOfDoc that appends each lemma once per Doc.
RECURSIVE LemmasOfDocDistinct(_)
LemmasOfDocDistinct(doc) ==
    IF doc = <<>> THEN <<>>
    ELSE LET rest == LemmasOfDocDistinct(Tail(doc))
             k == NormalizedLemma(Head(doc))
         IN  IF Head(doc).is_alpha /\ k \notin Range(rest) THEN <<k>> \o rest ELSE rest

\* LemmasOfDoc without the is_alpha test.
RECURSIVE LemmasOfDocEveryToken(_)
LemmasOfDocEveryToken(doc) ==
    IF doc = <<>> THEN <<>>
    ELSE <<NormalizedLemma(Head(doc))>> \o LemmasOfDocEveryToken(Tail(doc))

\* The inner loop over one Doc: what it appends to lemmas.
RECURSIVE LemmasOfDoc(_)
LemmasOfDoc(doc) ==
    IF doc = <<>> THEN <<>>
    ELSE (IF Head(doc).is_alpha THEN <<NormalizedLemma(Head(doc))>> ELSE <<>>)
         \o LemmasOfDoc(Tail(doc))

EmptyCounter == [k \in {} |-> 0]

\* Counter(lemmas): one increment per element.
RECURSIVE Counter(_)
Counter(lemmas) ==
    IF lemmas = <<>> THEN EmptyCounter
    ELSE LET c == Counter(SubSeq(lemmas, 1, Len(lemmas) - 1))
             k == lemmas[Len(lemmas)]
         IN  [x \in DOMAIN c \cup {k} |->
                 IF x = k THEN (IF k \in DOMAIN c THEN c[k] + 1 ELSE 1) ELSE c[x]]

\* ----------------------------------------------------- vocabulary matching

\* set(line.strip().lower() for line in lines if line.strip()); empty pieces
\* after a final newline are dropped by the filter, as blank lines are.
VocabWords(content) ==
    LET lines == Split(content, "\n")
    IN  {Lower(Strip(lines[i])) : i \in {j \in 1..Len(lines) : Strip(lines[j]) # <<>>}}

\* {word: count for word, count in word_counts.items() if word in vocab_words}
MatchedWords(counts, vocab_words) ==
    {<<w, counts[w]>> : w \in (DOMAIN counts) \cap vocab_words}

IsDescending(t) == \A i \in 1..(Len(t) - 1) : t[i][2] >= t[i + 1][2]

IsAscending(t) == \A i \in 1..(Len(t) - 1) : t[i][2] <= t[i + 1][2]

\* SortValues with ascending=True.
SortValuesAscending(rows) ==
    LET n == Cardinality(rows)
    IN  {t \in [1..n -> rows] : Range(t) = rows /\ IsAscending(t)}

\* DataFrame(items).sort_values(by="Count", ascending=False): the rows in
\* non-increasing order of count; the order among equal counts is whatever
\* the unstable default sort leaves, so every such order is an outcome.
SortValues(rows) ==
    LET n == Cardinality(rows)
    IN  {t \in [1..n -> rows] : Range(t) = rows /\ IsDescending(t)}

\* The tables of a list of vocabulary files: every combination of outcomes.
RECURSIVE TablesFor(_, _)
TablesFor(counts, files) ==
    IF files = <<>> THEN {<<>>}
    ELSE {<<t>> \o rest :
            t \in SortValues(MatchedWords(counts, VocabWords(Head(files)))),
            rest \in TablesFor(counts, Tail(files))}

\* ------------------------------------------------------------------ state

VARIABLES
    driver,            \* "web" (web_app.py) or "batch" (word_match_multi_chunked.py)
    nlp,               \* the loaded annotator
    CHUNK_WORDS,       \* the configured chunk size
    book_file,         \* the uploaded book / book.txt: None or Some(text)
    vocab_files,       \* the uploaded vocabulary files / the other .txt files
    run_button,        \* whether this rerun was started by the run button
    analysis_results,  \* st.session_state.analysis_results: None or Some(Counter)
    pc,                \* where the script is
    words,             \* re.findall result
    pulled,            \* chunks the generator has yielded so far
    queue,             \* Docs annotated by nlp.pipe and not yet handed to the loop
    lemmas,
    total_chunks,
    current_chunk,
    progress,          \* value shown by progress_bar: None or Some([num, den])
    word_counts,       \* None until Counter(lemmas) is computed in this run
    error,             \* "" or the failure surfaced to the caller
    report,            \* the rendered report: None or Some(tables, one per tab)
    out_files,         \* the spreadsheets the batch driver has written
    chunks_out,        \* history: the blobs handed to the annotator in this run
    docs_done,         \* history: the Docs the loop has consumed in this run
    annot_failed,      \* history: the annotator raised in this run
    stored_text,       \* history: the text the stored result was computed from
    replaced,          \* history: None or Some(what this run's store overwrote)
    token,             \* NormSpec: the token under normalisation
    key                \* NormSpec: None or Some(the key it was counted under)

vars == <<driver, nlp, CHUNK_WORDS, book_file, vocab_files, run_button,
          analysis_results, pc, words, pulled, queue, lemmas, total_chunks,
          current_chunk, progress, word_counts, error, report, out_files,
          chunks_out, docs_done, annot_failed, stored_text, replaced,
          token, key>>

config == <<driver, nlp, CHUNK_WORDS>>

norm == <<token, key>>

\* what one execution of a script computes and shows
locals == <<words, pulled, queue, lemmas, total_chunks, current_chunk, progress,
            word_counts, error, report, chunks_out, docs_done, annot_failed>>

NoToken == [lemma |-> <<>>, pos |-> "", is_alpha |-> FALSE]

FreshLocals ==
    /\ words = <<>>
    /\ pulled = 0
    /\ queue = <<>>
    /\ lemmas = <<>>
    /\ total_chunks = 0
    /\ current_chunk = 0
    /\ progress = None
    /\ word_counts = None
    /\ error = ""
    /\ report = None
    /\ chunks_out = <<>>
    /\ docs_done = <<>>
    /\ annot_failed = FALSE

\* The session after the page's first load: nothing uploaded,
\* analysis_results initialised to None, nothing rendered.  The batch script
\* starts in a directory that may or may not hold book.txt and vocabularies.
Init ==
    /\ driver \in {"web", "batch"}
    /\ nlp \in Taggers
    /\ CHUNK_WORDS \in 1..MaxChunkWords
    /\ IF driver = "web"
       THEN book_file = None /\ vocab_files = <<>> /\ pc = "idle"
       ELSE /\ book_file \in {None} \cup {Some(b) : b \in Books}
            /\ vocab_files \in VocabUploads
            /\ pc = "batch_start"
    /\ run_button = FALSE
    /\ analysis_results = None
    /\ FreshLocals
    /\ out_files = <<>>
    /\ stored_text = None
    /\ replaced = None
    /\ token = NoToken
    /\ key = None

\* ------------------------------------------------- nlp.pipe and the loop

AllChunks == iter_chunks_wordlist(words, CHUNK_WORDS)

\* nlp.pipe draws up to batch_size blobs from the generator at a time.
NextBatch == SubSeq(AllChunks, pulled + 1, Min(pulled + BATCH_SIZE, Len(AllChunks)))

\* The annotator returns the Docs of the batch.
AnnotatorReturns ==
    /\ queue' = [j \in 1..Len(NextBatch) |-> Annotate(nlp, NextBatch[j])]
    /\ pulled' = pulled + Len(NextBatch)
    /\ chunks_out' = chunks_out \o NextBatch
    /\ UNCHANGED <<pc, error, annot_failed>>

\* AnnotatorRaises with the exception swallowed: the failing batch is dropped
\* and the loop goes on.
AnnotatorRaisesSkipped ==
    /\ annot_failed' = TRUE
    /\ queue' = <<>>
    /\ pulled' = pulled + Len(NextBatch)
    /\ chunks_out' = chunks_out \o NextBatch
    /\ UNCHANGED <<pc, error>>

\* The annotator raises: nothing catches it, the exception leaves the for
\* loop and ends the script.
AnnotatorRaises ==
    /\ annot_failed' = TRUE
    /\ error' = "annotator"
    /\ pc' = IF driver = "web" THEN "idle" ELSE "exit"
    /\ UNCHANGED <<queue, pulled, chunks_out>>

\* for doc in nlp.pipe(...): the generator is asked for the next batch
PipeBatch ==
    /\ queue = <<>>
    /\ pulled < Len(AllChunks)
    /\ \/ AnnotatorReturns
       \/ AnnotatorRaises

\* the loop body's effect on lemmas
ConsumeDoc ==
    /\ queue # <<>>
    /\ lemmas' = lemmas \o LemmasOfDoc(Head(queue))
    /\ queue' = Tail(queue)
    /\ docs_done' = Append(docs_done, Head(queue))

\* min(current_chunk / total_chunks, 1.0) as a fraction
ProgressValue(cur, total) ==
    IF cur >= total THEN [num |-> 1, den |-> 1] ELSE [num |-> cur, den |-> total]

\* ------------------------------------------ the interactive driver (web)

\* Python truthiness of analysis_results: None and an empty Counter are false.
Truthy(result) == result # None /\ DOMAIN Get(result) # {}

\* Streamlit re-executes the script from the top on every widget event; the
\* script's local variables and what it rendered start afresh.
StartRerun(btn) ==
    /\ driver = "web"
    /\ pc = "idle"
    /\ run_button' = btn
    /\ pc' = "trigger"
    /\ words' = <<>>
    /\ pulled' = 0
    /\ queue' = <<>>
    /\ lemmas' = <<>>
    /\ total_chunks' = 0
    /\ current_chunk' = 0
    /\ progress' = None
    /\ word_counts' = None
    /\ error' = ""
    /\ report' = None
    /\ chunks_out' = <<>>
    /\ docs_done' = <<>>
    /\ annot_failed' = FALSE
    /\ replaced' = None
    /\ UNCHANGED <<config, analysis_results, out_files, stored_text, norm>>

\* The book uploader changes: a file is uploaded, replaced or removed.
UploadBook ==
    /\ \E b \in ({None} \cup {Some(t) : t \in Books}) \ {book_file} : book_file' = b
    /\ StartRerun(FALSE)
    /\ UNCHANGED vocab_files

\* The vocabulary uploader changes.
UploadVocab ==
    /\ \E v \in VocabUploads \ {vocab_files} : vocab_files' = v
    /\ StartRerun(FALSE)
    /\ UNCHANGED book_file

\* The run button is clicked.
ClickRun ==
    /\ StartRerun(TRUE)
    /\ UNCHANGED <<book_file, vocab_files>>

\* Any other widget event (a checkbox of the data editor, a download).
OtherEvent ==
    /\ StartRerun(FALSE)
    /\ UNCHANGED <<book_file, vocab_files>>

\* if run_button: the input checks, then the set-up of a run.
WebTrigger ==
    /\ driver = "web"
    /\ pc = "trigger"
    /\ IF ~run_button
       THEN pc' = "display" /\ UNCHANGED <<error, words, total_chunks, progress>>
       ELSE IF book_file = None
       THEN /\ error' = "no_book"
            /\ pc' = "display"
            /\ UNCHANGED <<words, total_chunks, progress>>
       ELSE IF vocab_files = <<>>
       THEN /\ error' = "no_vocab"
            /\ pc' = "display"
            /\ UNCHANGED <<words, total_chunks, progress>>
       ELSE /\ words' = FindAllAlpha(Get(book_file))
            /\ total_chunks' = (Len(words') \div CHUNK_WORDS) + 1
            /\ progress' = Some([num |-> 0, den |-> 1])
            /\ pc' = "pipe"
            /\ UNCHANGED error
    /\ UNCHANGED <<config, book_file, vocab_files, run_button, analysis_results,
                   pulled, queue, lemmas, current_chunk, word_counts, report,
                   out_files, chunks_out, docs_done, annot_failed, stored_text, replaced, norm>>

\* nlp.pipe fetches and annotates the next batch, or raises.
WebPipe ==
    /\ driver = "web"
    /\ pc = "pipe"
    /\ PipeBatch
    /\ UNCHANGED <<config, book_file, vocab_files, run_button, analysis_results,
                   words, lemmas, total_chunks, current_chunk, progress,
                   word_counts, report, out_files, docs_done, stored_text, replaced, norm>>

\* One iteration of the for loop: progress, then the lemma loop.
WebDoc ==
    /\ driver = "web"
    /\ pc = "pipe"
    /\ ConsumeDoc
    /\ current_chunk' = current_chunk + 1
    /\ progress' = Some(ProgressValue(current_chunk', total_chunks))
    /\ UNCHANGED <<config, book_file, vocab_files, run_button, analysis_results,
                   pc, words, pulled, total_chunks, word_counts, error, report,
                   out_files, chunks_out, annot_failed, stored_text, replaced, norm>>

\* StoredResult that updates the Counter already in the session.
StoredResultAccumulated(old, counts) ==
    IF old = None THEN Some(counts)
    ELSE LET o == Get(old)
         IN  Some([x \in DOMAIN o \cup DOMAIN counts |->
                     (IF x \in DOMAIN o THEN o[x] ELSE 0)
                     + (IF x \in DOMAIN counts THEN counts[x] ELSE 0)])

\* what the session keeps when a run ends
StoredResult(old, counts) == Some(counts)

\* The loop is over: Counter(lemmas), stored in the session, progress cleared.
WebStore ==
    /\ driver = "web"
    /\ pc = "pipe"
    /\ queue = <<>>
    /\ pulled = Len(AllChunks)
    /\ word_counts' = Some(Counter(lemmas))
    /\ analysis_results' = StoredResult(analysis_results, Get(word_counts'))
    /\ stored_text' = book_file
    /\ replaced' = Some([text |-> stored_text, result |-> analysis_results])
    /\ progress' = None
    /\ pc' = "display"
    /\ UNCHANGED <<config, book_file, vocab_files, run_button, words, pulled,
                   queue, lemmas, total_chunks, current_chunk, error, report,
                   out_files, chunks_out, docs_done, annot_failed, norm>>

\* The display section: the report of the stored result, one tab per file.
WebDisplay ==
    /\ driver = "web"
    /\ pc = "display"
    /\ IF Truthy(analysis_results)
       THEN IF vocab_files # <<>>
            THEN \E tabs \in TablesFor(Get(analysis_results), vocab_files) :
                    report' = Some(tabs)
            ELSE report' = Some(<<>>)
       ELSE report' = None
    /\ pc' = "idle"
    /\ UNCHANGED <<config, book_file, vocab_files, run_button, analysis_results,
                   words, pulled, queue, lemmas, total_chunks, current_chunk,
                   progress, word_counts, error, out_files, chunks_out,
                   docs_done, annot_failed, stored_text, replaced, norm>>

\* ------------------------------------------------- the batch driver

\* The row written when nothing matched: the label "wu pipei jieguo"
\* ("no matching result") with count 0.
NoMatchLabel == <<"n","o"," ","m","a","t","c","h">>

NoMatchRow == <<NoMatchLabel, 0>>

\* if not os.path.exists(book_file): raise SystemExit; else read and tokenize.
BatchRead ==
    /\ driver = "batch"
    /\ pc = "batch_start"
    /\ IF book_file = None
       THEN error' = "no_book" /\ pc' = "exit" /\ UNCHANGED words
       ELSE words' = FindAllAlpha(Get(book_file)) /\ pc' = "batch_pipe" /\ UNCHANGED error
    /\ UNCHANGED <<config, book_file, vocab_files, run_button, analysis_results,
                   pulled, queue, lemmas, total_chunks, current_chunk, progress,
                   word_counts, report, out_files, chunks_out, docs_done,
                   annot_failed, stored_text, replaced, norm>>

\* nlp.pipe fetches and annotates the next batch, or raises.
BatchPipe ==
    /\ driver = "batch"
    /\ pc = "batch_pipe"
    /\ PipeBatch
    /\ UNCHANGED <<config, book_file, vocab_files, run_button, analysis_results,
                   words, lemmas, total_chunks, current_chunk, progress,
                   word_counts, report, out_files, docs_done, stored_text, replaced, norm>>

\* One iteration of the for loop: the lemma loop.
BatchDoc ==
    /\ driver = "batch"
    /\ pc = "batch_pipe"
    /\ ConsumeDoc
    /\ UNCHANGED <<config, book_file, vocab_files, run_button, analysis_results,
                   pc, words, pulled, total_chunks, current_chunk, progress,
                   word_counts, error, report, out_files, chunks_out,
                   annot_failed, stored_text, replaced, norm>>

\* word_counts = Counter(lemmas)
BatchCount ==
    /\ driver = "batch"
    /\ pc = "batch_pipe"
    /\ queue = <<>>
    /\ pulled = Len(AllChunks)
    /\ word_counts' = Some(Counter(lemmas))
    /\ pc' = "batch_vocab"
    /\ UNCHANGED <<config, book_file, vocab_files, run_button, analysis_results,
                   words, pulled, queue, lemmas, total_chunks, current_chunk,
                   progress, error, report, out_files, chunks_out, docs_done,
                   annot_failed, stored_text, replaced, norm>>

\* The table written for one vocabulary file.
BatchTables(counts, content) ==
    LET sorted == SortValues(MatchedWords(counts, VocabWords(content)))
    IN  {IF df = <<>> THEN <<NoMatchRow>> ELSE df : df \in sorted}

\* One iteration of the loop over the vocabulary files: match, sort, write.
BatchVocab ==
    /\ driver = "batch"
    /\ pc = "batch_vocab"
    /\ Len(out_files) < Len(vocab_files)
    /\ \E df \in BatchTables(Get(word_counts), vocab_files[Len(out_files) + 1]) :
          out_files' = Append(out_files, df)
    /\ UNCHANGED <<config, book_file, vocab_files, run_button, analysis_results,
                   pc, locals, stored_text, replaced, norm>>

\* The loop is over; the script reports that everything was processed.
BatchDone ==
    /\ driver = "batch"
    /\ pc = "batch_vocab"
    /\ Len(out_files) = Len(vocab_files)
    /\ pc' = "exit"
    /\ UNCHANGED <<config, book_file, vocab_files, run_button, analysis_results,
                   locals, out_files, stored_text, replaced, norm>>

Next ==
    \/ UploadBook
    \/ UploadVocab
    \/ ClickRun
    \/ OtherEvent
    \/ WebTrigger
    \/ WebPipe
    \/ WebDoc
    \/ WebStore
    \/ WebDisplay
    \/ BatchRead
    \/ BatchPipe
    \/ BatchDoc
    \/ BatchCount
    \/ BatchVocab
    \/ BatchDone

Spec == Init /\ [][Next]_vars

\* --------------------------------------- the normaliser on its own

LemmaAlphabet == {"a", "l", "y", "Y"}

BoundedLemmas == UNION {[1..n -> LemmaAlphabet] : n \in 0..MaxLemmaLen}

NamedLemmas == AdverbLexicon \cup AdjectiveLexicon

TokenInputs ==
    [lemma : BoundedLemmas \cup NamedLemmas,
     pos : {"ADV", "ADJ", "NOUN"},
     is_alpha : BOOLEAN]

InitNorm ==
    /\ driver = "batch"
    /\ nlp = "dict"
    /\ CHUNK_WORDS = 1
    /\ book_file = None
    /\ vocab_files = <<>>
    /\ run_button = FALSE
    /\ analysis_results = None
    /\ pc = "token"
    /\ FreshLocals
    /\ out_files = <<>>
    /\ stored_text = None
    /\ replaced = None
    /\ token \in TokenInputs
    /\ key = None

\* The body of the loop over a Doc's tokens, for one token.
NormalizeToken ==
    /\ pc = "token"
    /\ key' = (IF token.is_alpha THEN Some(NormalizedLemma(token)) ELSE None)
    /\ lemmas' = lemmas \o LemmasOfDoc(<<token>>)
    /\ pc' = "counted"
    /\ UNCHANGED <<config, book_file, vocab_files, run_button, analysis_results,
                   words, pulled, queue, total_chunks, current_chunk, progress,
                   word_counts, error, report, out_files, chunks_out, docs_done,
                   annot_failed, stored_text, replaced, token>>

NextNorm == NormalizeToken

NormSpec == InitNorm /\ [][NextNorm]_vars

\* ------------------------------------- one run on an arbitrary word list

WordPool == { <<"s","o">>, <<"o","n","l","y">>, <<"Q","u","i","c","k","l","y">> }

WordLists == UNION {[1..n -> WordPool] : n \in 0..MaxWords}

\* One run of either driver on a book made of any bounded word list: the web
\* script at the rerun started by the run button, the batch script at its
\* start.
InitRun ==
    /\ driver \in {"web", "batch"}
    /\ nlp \in Taggers
    /\ CHUNK_WORDS \in 1..MaxChunkWords
    /\ \E ws \in WordLists : book_file = Some(Join(ws, " "))
    /\ vocab_files = <<VocabBasic>>
    /\ run_button = (driver = "web")
    /\ pc = (IF driver = "web" THEN "trigger" ELSE "batch_start")
    /\ analysis_results = None
    /\ FreshLocals
    /\ out_files = <<>>
    /\ stored_text = None
    /\ replaced = None
    /\ token = NoToken
    /\ key = None

NextRun ==
    \/ WebTrigger
    \/ WebPipe
    \/ WebDoc
    \/ WebStore
    \/ WebDisplay
    \/ BatchRead
    \/ BatchPipe
    \/ BatchDoc
    \/ BatchCount
    \/ BatchVocab
    \/ BatchDone

RunSpec == InitRun /\ [][NextRun]_vars

\* ================================================================ claims

RECURSIVE Flatten(_)
Flatten(seqs) == IF seqs = <<>> THEN <<>> ELSE Head(seqs) \o Flatten(Tail(seqs))

RECURSIVE SumOver(_, _)
SumOver(f, S) ==
    IF S = {} THEN 0
    ELSE LET x == CHOOSE y \in S : TRUE IN f[x] + SumOver(f, S \ {x})

CeilDiv(n, d) == (n + d - 1) \div d

RunCompleted == word_counts # None

\* ---------------------------------------------------------------- C1
\* The words of the blobs handed to the annotator, each blob split on the
\* single space and the pieces concatenated in the order yielded.
RejoinedWords == Flatten([k \in 1..Len(chunks_out) |-> Split(chunks_out[k], " ")])

\* C1: the chunks yielded so far re-join to the words consumed so far, in
\* order, nothing lost or duplicated; once the generator is exhausted they
\* re-join to the whole word sequence; no chunk is empty.
C1_ChunksRejoinToWords ==
    /\ \A k \in 1..Len(chunks_out) : chunks_out[k] # <<>>
    /\ Len(RejoinedWords) <= Len(words)
    /\ RejoinedWords = SubSeq(words, 1, Len(RejoinedWords))
    /\ RunCompleted => RejoinedWords = words

\* A completed run with several chunks, one of them of several words, and a
\* shorter last chunk.
C1_Witness ==
    /\ RunCompleted
    /\ Len(chunks_out) >= 2
    /\ CHUNK_WORDS >= 2
    /\ Len(words) % CHUNK_WORDS # 0
    /\ RejoinedWords = words

\* ---------------------------------------------------------------- C2
AlphaTokens == {i \in 1..Len(Flatten(docs_done)) : Flatten(docs_done)[i].is_alpha}

\* C2: when a run has completed, every chunk's Doc has been consumed and the
\* counts of the FrequencyMap add up to the number of tokens flagged
\* alphabetic.
C2_TotalCountIsAlphaTokens ==
    RunCompleted =>
        /\ Len(docs_done) = Len(chunks_out)
        /\ SumOver(Get(word_counts), DOMAIN Get(word_counts)) = Cardinality(AlphaTokens)

\* A completed run with a non-alphabetic token, an adverb that was reduced
\* and more than one counted token.
C2_Witness ==
    /\ RunCompleted
    /\ Cardinality(AlphaTokens) >= 2
    /\ Cardinality(AlphaTokens) < Len(Flatten(docs_done))
    /\ \E i \in AlphaTokens :
          LET t == Flatten(docs_done)[i]
          IN  Lower(t.lemma) \notin DOMAIN Get(word_counts)

\* ---------------------------------------------------------------- C3
Tok(l, p) == [lemma |-> l, pos |-> p, is_alpha |-> TRUE]

\* The rule as the claim states it.
ClaimedKey(t) ==
    LET low == Lower(t.lemma)
        n == Len(low)
        reduce == /\ t.pos = "ADV"
                  /\ n >= 2 /\ low[n - 1] = "l" /\ low[n] = "y"
                  /\ n - 2 > 2
    IN  IF reduce THEN [i \in 1..(n - 2) |-> low[i]] ELSE low

\* C3: an alphabetic token is counted under the lower-cased lemma without
\* its final "ly" exactly when it is an adverb, ends in "ly" and the rest is
\* longer than two letters; otherwise under the lower-cased lemma.  The five
\* named cases come out as quick, only, fly, too, friendly.
C3_AdverbRule ==
    (pc = "counted" /\ token.is_alpha) =>
        /\ key = Some(ClaimedKey(token))
        /\ lemmas = <<ClaimedKey(token)>>
        /\ token = Tok(<<"q","u","i","c","k","l","y">>, "ADV") => key = Some(<<"q","u","i","c","k">>)
        /\ token = Tok(<<"o","n","l","y">>, "ADV") => key = Some(<<"o","n","l","y">>)
        /\ token = Tok(<<"f","l","y">>, "ADV") => key = Some(<<"f","l","y">>)
        /\ token = Tok(<<"t","o","o">>, "ADV") => key = Some(<<"t","o","o">>)
        /\ token = Tok(<<"f","r","i","e","n","d","l","y">>, "ADJ")
              => key = Some(<<"f","r","i","e","n","d","l","y">>)

\* quickly/ADV has been counted as quick.
C3_Witness ==
    /\ pc = "counted"
    /\ token = Tok(<<"q","u","i","c","k","l","y">>, "ADV")
    /\ key = Some(<<"q","u","i","c","k">>)

\* ---------------------------------------------------------------- C4
\* C4: in the interactive driver the progress shown after the k-th chunk is
\* k / ceil(word_count / CHUNK_WORDS).
C4_ProgressIsChunksOverCeil ==
    (driver = "web" /\ progress # None /\ current_chunk >= 1) =>
        Get(progress).num * CeilDiv(Len(words), CHUNK_WORDS)
            = current_chunk * Get(progress).den

\* ---------------------------------------------------------------- C5
\* The script is past its input checks in an execution that asked for a run.
RunRequested ==
    \/ driver = "web" /\ run_button /\ pc \in {"pipe", "display", "idle"}
    \/ driver = "batch" /\ pc \in {"batch_pipe", "batch_vocab", "exit"}

\* C5: in both drivers, a run asked for without a book or without a
\* vocabulary is reported as a failure and does no pipeline work: no words,
\* no chunks, no Docs, no lemmas, no FrequencyMap.
C5_MissingInputStopsPipeline ==
    (RunRequested /\ (book_file = None \/ vocab_files = <<>>)) =>
        /\ error \in {"no_book", "no_vocab"}
        /\ words = <<>>
        /\ chunks_out = <<>>
        /\ docs_done = <<>>
        /\ lemmas = <<>>
        /\ word_counts = None
        /\ out_files = <<>>

\* ---------------------------------------------------------------- C6
\* The FrequencyMap of a whole text under the session's annotator and chunk
\* size: every chunk annotated, every Doc folded.
WholeMap(text) ==
    LET cs == iter_chunks_wordlist(FindAllAlpha(text), CHUNK_WORDS)
    IN  Counter(Flatten([k \in 1..Len(cs) |-> LemmasOfDoc(Annotate(nlp, cs[k]))]))

\* C6: a run in which the annotator failed has ended with the failure
\* surfaced, has produced no FrequencyMap, rendered no table and written no
\* file; a run that produced a FrequencyMap consumed a Doc for every chunk of
\* the text; and the session only ever holds the map of a whole text.
C6_FailedRunYieldsNoMap ==
    /\ annot_failed =>
          /\ pc \in {"idle", "exit"}
          /\ error = "annotator"
          /\ word_counts = None
          /\ report = None
          /\ out_files = <<>>
    /\ RunCompleted =>
          /\ ~annot_failed
          /\ Len(docs_done) = CeilDiv(Len(words), CHUNK_WORDS)
          /\ Get(word_counts) = WholeMap(Get(book_file))
    /\ analysis_results # None =>
          /\ stored_text # None
          /\ Get(analysis_results) = WholeMap(Get(stored_text))

\* The annotator failed on a later batch, after Docs of the run had been
\* folded into lemmas, in a session that holds an earlier run's result.
C6_Witness ==
    /\ annot_failed
    /\ lemmas # <<>>
    /\ analysis_results # None
    /\ pc = "idle"

\* ---------------------------------------------------------------- C7
\* C7: when a run completes on the text the stored result was computed from,
\* the new result equals the one it replaces, and what the session holds is
\* this run's Counter alone.
C7_RepeatedRunSameMap ==
    (driver = "web" /\ RunCompleted /\ replaced # None) =>
        /\ analysis_results = word_counts
        /\ Get(replaced).text = book_file => Get(replaced).result = analysis_results

\* A second run on the same text has completed with a non-empty result.
C7_Witness ==
    /\ driver = "web"
    /\ RunCompleted
    /\ replaced # None
    /\ Get(replaced).text = book_file
    /\ Get(replaced).result = analysis_results
    /\ DOMAIN Get(analysis_results) # {}

\* ---------------------------------------------------------------- C8
Orderings(n) == {p \in [1..n -> 1..n] : Range(p) = 1..n}

\* The tokens cut into consecutive groups after the positions in cuts.
Regroup(toks, cuts) ==
    LET starts == {1} \cup {c + 1 : c \in cuts}
        m == Cardinality(starts)
        start(k) == CHOOSE x \in starts : Cardinality({y \in starts : y < x}) = k - 1
    IN  [k \in 1..m |->
            SubSeq(toks, start(k), IF k = m THEN Len(toks) ELSE start(k + 1) - 1)]

\* The two loops and the Counter, over a list of Docs.
FoldDocs(docs) == Counter(Flatten([k \in 1..Len(docs) |-> LemmasOfDoc(docs[k])]))

\* C8: the FrequencyMap of a completed run is the one obtained from the same
\* annotated tokens taken in any order and cut into groups in any way.
C8_FoldIgnoresOrderAndGrouping ==
    (RunCompleted /\ pc \in {"display", "batch_vocab"} /\ out_files = <<>>) =>
        LET toks == Flatten(docs_done)
            n == Len(toks)
        IN  \A p \in Orderings(n) :
              \A cuts \in SUBSET (1..(n - 1)) :
                 FoldDocs(Regroup([i \in 1..n |-> toks[p[i]]], cuts)) = Get(word_counts)

\* A completed run of several Docs in which one key was counted from tokens
\* of different Docs.
C8_Witness ==
    /\ RunCompleted
    /\ pc \in {"display", "batch_vocab"}
    /\ Len(docs_done) >= 2
    /\ \E i, j \in 1..Len(docs_done) :
          /\ i < j
          /\ Range(LemmasOfDoc(docs_done[i])) \cap Range(LemmasOfDoc(docs_done[j])) # {}

\* ---------------------------------------------------------------- C9
\* The rows the claim asks for: one per key of the map that is in the
\* vocabulary set, with the map's count.
ClaimedRows(counts, content) ==
    {<<w, counts[w]>> : w \in {k \in DOMAIN counts : k \in VocabWords(content)}}

\* Table t holds exactly those rows, each once, in non-increasing order of
\* count.
TableIsExact(t, counts, content) ==
    /\ Range(t) = ClaimedRows(counts, content)
    /\ Len(t) = Cardinality(ClaimedRows(counts, content))
    /\ \A i, j \in 1..Len(t) : i < j => t[i][2] >= t[j][2]

\* The report of the interactive driver has one exact table per file.
WebTablesExact ==
    (report # None /\ vocab_files # <<>>) =>
        /\ Len(Get(report)) = Len(vocab_files)
        /\ \A i \in 1..Len(vocab_files) :
              TableIsExact(Get(report)[i], Get(analysis_results), vocab_files[i])

\* C9 as stated: every table either driver produces is exact.
C9_EveryTableExact ==
    /\ WebTablesExact
    /\ \A i \in 1..Len(out_files) :
          TableIsExact(out_files[i], Get(word_counts), vocab_files[i])

\* C9 amended: the tables of the interactive driver are exact; a table the
\* batch driver writes is exact when some key matches, and is the single
\* row (no-match label, 0) when none does; the batch driver ends with one
\* table per vocabulary file.
C9_TablesExactOrPlaceholder ==
    /\ WebTablesExact
    /\ \A i \in 1..Len(out_files) :
          IF ClaimedRows(Get(word_counts), vocab_files[i]) = {}
          THEN out_files[i] = <<NoMatchRow>>
          ELSE TableIsExact(out_files[i], Get(word_counts), vocab_files[i])
    /\ (driver = "batch" /\ pc = "exit" /\ error = "") => Len(out_files) = Len(vocab_files)

\* The batch driver has written a table whose rows had to be reordered by
\* count and, for a vocabulary nothing matched, the placeholder row.
C9_Witness ==
    /\ driver = "batch"
    /\ pc = "exit"
    /\ Len(out_files) = 2
    /\ Len(out_files[1]) = 2
    /\ out_files[1][1][2] > out_files[1][2][2]
    /\ out_files[2] = <<NoMatchRow>>

\* --------------------------------------------------------------- C10
\* The report of the stored result is on the page: one tab per vocabulary
\* file, each with the stored result's rows for that file.
ReportShown ==
    /\ report # None
    /\ Len(Get(report)) = Len(vocab_files)
    /\ \A i \in 1..Len(vocab_files) :
          Range(Get(report)[i]) = ClaimedRows(Get(analysis_results), vocab_files[i])

\* C10, first part: the stored result changes only in a rerun started by
\* the run button with a book and at least one vocabulary file present.
StoredChangesOnlyInRun ==
    [][analysis_results' # analysis_results =>
          (driver = "web" /\ run_button /\ book_file # None /\ vocab_files # <<>>)]_vars

\* C10, second part: once a result is stored, every rerun ends with its
\* report rendered.
C10_StoredResultAlwaysShown ==
    (driver = "web" /\ pc = "idle" /\ analysis_results # None) => ReportShown

\* C10: over any sequence of reruns of the interactive script, the stored
\* result changes only in a rerun started by the run button with a book and a
\* vocabulary file present, and every rerun that ends while a result is
\* stored has rendered the per-vocabulary report of that result.
C10_RerunsKeepAndShowResult ==
    StoredChangesOnlyInRun /\ []C10_StoredResultAlwaysShown

====
